---- MODULE Spec2Model ----
(***************************************************************************)
(* Model of the news ingestion pipeline: the periodic Scheduler            *)
(* (scheduler.py), the paginated NewsAPI fetcher (newsapi_client.py), the  *)
(* article normaliser (data_processor.py), the Kinesis writer              *)
(* (kinesis_writer.py), the ingestion cycle that composes them and the     *)
(* startup of the process (main.py, config.py).                            *)
(*                                                                         *)
(* Python values are modelled as follows.  An Optional[int] is a sequence: *)
(* <<>> is None and <<n>> is the integer n.  A str is a sequence of        *)
(* one-character strings.                                                  *)
(***************************************************************************)
EXTENDS Integers, Sequences, FiniteSets, TLC

(***************************************************************************)
(* Bounds of the model.                                                    *)
(***************************************************************************)
\* largest max_iterations argument explored
MaxIterArg == 3
\* the iteration counter is capped here (a task that always raises never
\* lets run_periodic stop)
MaxIteration == 5
\* largest number of records handed to write_articles on its own
MaxArticles == 10
\* largest KINESIS_BATCH_SIZE explored
MaxBatchSize == 4
\* longest list handed to process_articles on its own
MaxRawList == 2
\* largest NEWSAPI_PAGE_SIZE explored
MaxPageSize == 2
\* largest totalResults the search API reports
MaxTotal == 5
\* largest max_pages argument explored
MaxPagesArg == 3
\* in the whole pipeline: the number of cycles explored, and the largest
\* totalResults the search API reports
MaxCycles == 2
MaxCycleTotal == 2
\* longest text explored in a free-text field of a raw record
MaxTextLen == 4
\* against the steady search API: the configured page size goes up to
\* MaxSizeSteps halves of the API maximum, totalResults up to MaxTotalSteps
\* quarters of it
MaxSizeSteps == 4
MaxTotalSteps == 14

(***************************************************************************)
(* Program constants.                                                      *)
(***************************************************************************)
\* default of Config.KINESIS_BATCH_SIZE
DefaultBatchSize == 500
\* the page size the search API allows at most
ApiMaxPageSize == 100

VARIABLES
    \* ---- Scheduler (scheduler.py)
    running,          \* self.running
    iteration,        \* local variable iteration of run_periodic
    max_iterations,   \* argument of run_periodic: <<>> is None
    spc,              \* position of run_periodic
    outcome,          \* how the last finished task invocation ended
    taskCalls,        \* history: number of task() invocations
    interrupted,      \* history: a KeyboardInterrupt was delivered
    stopCalled,       \* history: Scheduler.stop() was called
    sleeps,           \* history: number of interval sleeps that completed
    \* ---- KinesisWriter (kinesis_writer.py)
    articles,         \* argument articles of write_articles
    use_batching,     \* argument use_batching of write_articles
    batch_size,       \* self.batch_size (Config.KINESIS_BATCH_SIZE)
    wpc,              \* position of write_articles
    wi,               \* loop variable i of the batch loop (an offset)
    wn,               \* number of articles the single-record loop has done
    total_success,    \* locals of the batch branch
    total_failed,
    success_count,    \* locals of the single-record branch
    failed_count,
    wresult,          \* the tuple write_articles returned
    accepted,         \* history: positions of articles the stream accepted
    requests,         \* history: the write requests sent to the stream
    \* ---- DataProcessor (data_processor.py)
    raw_articles,     \* argument articles of process_articles
    ppc,              \* position of process_articles
    pidx,             \* number of raw records the loop has done
    processed,        \* local list processed of process_articles
    results,          \* history: what process_article returned, per record
    \* ---- NewsAPIClient (newsapi_client.py)
    page_size,        \* Config.NEWSAPI_PAGE_SIZE
    max_pages,        \* argument max_pages of fetch_all_articles: <<>> is None
    fpc,              \* position of fetch_all_articles
    page,             \* local variable page
    all_articles,     \* local list all_articles
    pageLog,          \* history: the page requests and their answers
    \* ---- ingest_news_cycle (main.py)
    cpc,              \* position of ingest_news_cycle
    summary,          \* the counts of the "Ingestion cycle completed" log
    \* ---- main (main.py) and its environment
    NEWSAPI_KEY,          \* Config.NEWSAPI_KEY
    KINESIS_STREAM_NAME,  \* Config.KINESIS_STREAM_NAME
    LOG_LEVEL,            \* Config.LOG_LEVEL
    stream_status,        \* what describe_stream answers for the stream
    mpc,                  \* position of main
    fatal,                \* the exception that ended main, "none" if none did
    exit_code             \* exit status of the process: <<>> while it runs

schedVars == <<running, iteration, max_iterations, spc, outcome, taskCalls,
               interrupted, stopCalled, sleeps>>

writerVars == <<articles, use_batching, batch_size, wpc, wi, wn,
                total_success, total_failed, success_count, failed_count,
                wresult, accepted, requests>>

procVars == <<raw_articles, ppc, pidx, processed, results>>

fetchVars == <<page_size, max_pages, fpc, page, all_articles, pageLog>>

cycleVars == <<cpc, summary>>

mainVars == <<NEWSAPI_KEY, KINESIS_STREAM_NAME, LOG_LEVEL, stream_status, mpc,
              fatal, exit_code>>

vars == <<schedVars, writerVars, procVars, fetchVars, cycleVars, mainVars>>

(***************************************************************************)
(* Python helpers.                                                         *)
(***************************************************************************)
None == <<>>

\* truth value of an Optional[int]: None and 0 are falsy
TruthyOptInt(x) == x # None /\ x[1] # 0

Min(a, b) == IF a <= b THEN a ELSE b

\* the string made of n copies of the character c
Rep(c, n) == [k \in 1..n |-> c]

(***************************************************************************)
(* Python values of the raw records.  A str is a sequence of characters;   *)
(* NoneStr is the value None where a str is expected, and Missing marks a  *)
(* key that the dict does not hold.                                        *)
(***************************************************************************)
NoneStr == <<"<None>">>
Missing == <<"<missing>">>

\* dict.get(key, default) on the value v found under the key
Get(v, default) == IF v = Missing THEN default ELSE v

\* "not v" for an Optional[str]
Falsy(v) == v = NoneStr \/ v = <<>>

\* the characters \s matches and str.strip() removes
Whitespace == {" ", "\t"}

\* the literals of data_processor.py
Unknown == <<"U", "n", "k", "n", "o", "w", "n">>
Removed == <<"[", "R", "e", "m", "o", "v", "e", "d", "]">>

(***************************************************************************)
(* DataProcessor (data_processor.py)                                       *)
(***************************************************************************)
\* hashlib.sha256(...).hexdigest(), taken to be collision-free: the digest
\* is represented by the string it was computed from, behind a marker
Sha256Hex(text) == <<"sha256">> \o text

\* lines 15-27
generate_article_id(url, title) ==
    LET combined == url \o <<":">> \o title
    IN  Sha256Hex(combined)

\* line 44: re.sub(r'\s+', ' ', text)
RECURSIVE CollapseWhitespace(_)
CollapseWhitespace(text) ==
    IF text = <<>> THEN <<>>
    ELSE IF Head(text) \in Whitespace
      THEN IF Len(text) > 1 /\ text[2] \in Whitespace
             THEN CollapseWhitespace(Tail(text))
             ELSE <<" ">> \o CollapseWhitespace(Tail(text))
      ELSE <<Head(text)>> \o CollapseWhitespace(Tail(text))

\* line 46: text.strip()
RECURSIVE LStrip(_)
LStrip(text) ==
    IF text # <<>> /\ Head(text) \in Whitespace THEN LStrip(Tail(text)) ELSE text

RECURSIVE RStrip(_)
RStrip(text) ==
    IF text # <<>> /\ text[Len(text)] \in Whitespace
      THEN RStrip(SubSeq(text, 1, Len(text) - 1))
      ELSE text

Strip(text) == RStrip(LStrip(text))

\* clean_text as it would be without the strip() of line 46
clean_textMutNoStrip(text) ==
    IF Falsy(text) THEN <<>> ELSE CollapseWhitespace(text)

\* lines 30-47
clean_text(text) ==
    IF Falsy(text) THEN <<>> ELSE Strip(CollapseWhitespace(text))

\* A timestamp is a sequence of tokens: a date-time, then nothing, the
\* letter Z or a UTC offset.
DateTimeToken == "2024-01-01T00:00:00"

\* line 65: date_string.replace('Z', '+00:00')
ReplaceZ(date_string) ==
    [k \in DOMAIN date_string |->
        IF date_string[k] = "Z" THEN "+00:00" ELSE date_string[k]]

\* line 65: what datetime.fromisoformat accepts
IsIsoFormat(text) ==
    /\ Len(text) \in {1, 2}
    /\ text[1] = DateTimeToken
    /\ Len(text) = 2 => text[2] = "+00:00"

\* lines 50-69
parse_datetime(date_string) ==
    IF Falsy(date_string) THEN NoneStr
    ELSE IF IsIsoFormat(ReplaceZ(date_string)) THEN ReplaceZ(date_string)
    ELSE NoneStr

\* extract_content as it would be without the test for "[Removed]"
extract_contentMutNoSentinel(article) ==
    LET content == Get(article.content, <<>>)
    IN  IF Falsy(content)
          THEN Get(article.description, <<>>)
          ELSE content

\* lines 72-85
extract_content(article) ==
    LET content == Get(article.content, <<>>)
    IN  IF Falsy(content) \/ content = Removed
          THEN Get(article.description, <<>>)
          ELSE content

\* lines 99-141: the body of the try block of process_article.  The result
\* is a canonical record (kind "ok"), None (kind "none"), or an exception
\* raised on the way (kind "exc": source is None, source.get fails).
ProcessArticleBody(article) ==
    LET url   == Get(article.url, <<>>)
        title == Get(article.title, <<>>)
    IN  IF Falsy(url) \/ Falsy(title) THEN [kind |-> "none"]
        ELSE IF article.source = "none" THEN [kind |-> "exc"]
        ELSE
          LET source_name == IF article.source = "missing" THEN Unknown
                             ELSE Get(article.source_name, Unknown)
              content == clean_text(extract_content(article))
              article_id == generate_article_id(url, title)
              published_at == parse_datetime(Get(article.publishedAt, NoneStr))
              author0 == Get(article.author, Unknown)
              author == IF ~Falsy(author0) THEN clean_text(author0) ELSE Unknown
              processed_dict == [article_id   |-> article_id,
                                 source_name  |-> clean_text(source_name),
                                 title        |-> clean_text(title),
                                 content      |-> content,
                                 url          |-> url,
                                 author       |-> author,
                                 published_at |-> published_at]
          IN  IF Falsy(processed_dict.article_id) \/ Falsy(processed_dict.title)
                THEN [kind |-> "none"]
                ELSE [kind |-> "ok", rec |-> processed_dict]

\* process_article as it would be without its "except Exception" handler
process_articleMutNoCatch(article) == ProcessArticleBody(article)

\* lines 88-145: process_article; "except Exception" turns an exception of
\* the body into None

process_article(article) ==
    LET r == ProcessArticleBody(article)
    IN  IF r.kind = "exc" THEN [kind |-> "none"] ELSE r

\* the state before process_articles is entered
ProcessorIdle ==
    /\ raw_articles = <<>>
    /\ ppc = "idle"
    /\ pidx = 0
    /\ processed = <<>>
    /\ results = <<>>

\* one turn of the loop as it would be if process_articles skipped a record
\* whose id it has already appended
ProcessNextArticleMutDedup ==
    /\ ppc = "loop"
    /\ pidx < Len(raw_articles)
    /\ LET processed_article == process_article(raw_articles[pidx + 1])
           seen == processed_article.kind = "ok" /\
                   \E k \in DOMAIN processed :
                       processed[k].article_id = processed_article.rec.article_id
       IN  /\ results' = Append(results, processed_article)
           /\ ppc' = ppc
           /\ pidx' = pidx + 1
           /\ processed' = IF processed_article.kind = "ok" /\ ~seen
                              THEN Append(processed, processed_article.rec)
                              ELSE processed
    /\ UNCHANGED raw_articles

\* lines 158-162: one turn of the loop of process_articles
ProcessNextArticle ==
    /\ ppc = "loop"
    /\ pidx < Len(raw_articles)
    /\ LET processed_article == process_article(raw_articles[pidx + 1])
       IN  /\ results' = Append(results, processed_article)
           /\ IF processed_article.kind = "exc"
                THEN /\ ppc' = "raised"
                     /\ UNCHANGED <<processed, pidx>>
                ELSE /\ ppc' = ppc
                     /\ pidx' = pidx + 1
                     /\ processed' = IF processed_article.kind = "ok"
                                       THEN Append(processed, processed_article.rec)
                                       ELSE processed
    /\ UNCHANGED raw_articles

\* lines 164-165: the loop is exhausted
ProcessArticlesReturn ==
    /\ ppc = "loop"
    /\ pidx >= Len(raw_articles)
    /\ ppc' = "done"
    /\ UNCHANGED <<raw_articles, pidx, processed, results>>

(***************************************************************************)
(* NewsAPIClient (newsapi_client.py)                                       *)
(***************************************************************************)
\* the state before fetch_all_articles is entered
FetcherIdle ==
    /\ page_size = 1
    /\ max_pages = None
    /\ fpc = "idle"
    /\ page = 1
    /\ all_articles = <<>>
    /\ pageLog = <<>>

\* line 50: the pageSize parameter of the request
RequestPageSize == Min(page_size, ApiMaxPageSize)

\* total_pages as it would be with a plain floor division
TotalPagesMutFloor(total_results) == total_results \div page_size

\* line 124: total_pages

TotalPages(total_results) == (total_results + page_size - 1) \div page_size

\* the position after a failed page if the exception were not caught
AfterPageErrorMutPropagate == "raised"

\* lines 138-140: an exception of fetch_articles is logged and breaks the
\* loop; the function then returns

AfterPageError == "done"

\* lines 100-103: fetch_all_articles is entered
FetchBegin ==
    /\ fpc = "start"
    /\ all_articles' = <<>>
    /\ page' = 1
    /\ fpc' = "loop"
    /\ UNCHANGED <<page_size, max_pages, pageLog>>

\* lines 107-115 with fetch_articles (61-81), then 138-143: the request of
\* the page fails: a RequestException (network error, timeout, non-2xx
\* status via raise_for_status) or the Exception raised for a payload with
\* status "error"
FetchPageFails ==
    /\ fpc = "loop"
    /\ \E error \in {"RequestException", "ApiError"} :
         pageLog' = Append(pageLog, [page |-> page, pageSize |-> RequestPageSize,
                                     answer |-> error, articles |-> <<>>,
                                     totalResults |-> 0])
    /\ fpc' = AfterPageError
    /\ UNCHANGED <<page_size, max_pages, page, all_articles>>

\* lines 107-136, then 142-143 when the loop is left: the request of the
\* page is answered with the data (pageArticles, total_results)
FetchPageAnswered(pageArticles, total_results) ==
    /\ fpc = "loop"
    /\ pageLog' = Append(pageLog, [page |-> page, pageSize |-> RequestPageSize,
                                   answer |-> "ok", articles |-> pageArticles,
                                   totalResults |-> total_results])
    /\ IF pageArticles = <<>>
         THEN /\ fpc' = "done"
              /\ UNCHANGED <<page, all_articles>>
         ELSE /\ all_articles' = all_articles \o pageArticles
              /\ IF page >= TotalPages(total_results)
                   THEN fpc' = "done" /\ page' = page
                   ELSE IF TruthyOptInt(max_pages) /\ page >= max_pages[1]
                     THEN fpc' = "done" /\ page' = page
                     ELSE fpc' = "loop" /\ page' = page + 1
    /\ UNCHANGED <<page_size, max_pages>>


(***************************************************************************)
(* ingest_news_cycle (main.py 22-98), the task that main hands to          *)
(* Scheduler.run_periodic (main.py 129-147).  Each action below is a step  *)
(* of the cycle; the steps that end it are joined, in the specification of *)
(* the pipeline, with the step of run_periodic that follows.               *)
(***************************************************************************)
\* no cycle is running
CycleIdle ==
    /\ cpc = "idle"
    /\ summary = <<>>

\* lines 41-48: the cycle starts and calls fetch_all_articles(query,
\* hours_back), max_pages being left None; no call of process_articles or
\* write_articles is in progress
CycleCallsFetch ==
    /\ cpc = "idle"
    /\ cpc' = "fetch"
    /\ summary' = <<>>
    /\ fpc' = "start"
    /\ max_pages' = None
    /\ page' = 1
    /\ all_articles' = <<>>
    /\ pageLog' = <<>>
    /\ ppc' = "idle"
    /\ wpc' = "idle"
    /\ UNCHANGED <<page_size, raw_articles, pidx, processed, results>>
    /\ UNCHANGED <<articles, use_batching, batch_size, wi, wn, total_success,
                   total_failed, success_count, failed_count, wresult,
                   accepted, requests>>

\* lines 50-52: nothing was fetched, the cycle returns
CycleNothingFetched ==
    /\ cpc = "fetch"
    /\ fpc = "done"
    /\ all_articles = <<>>
    /\ cpc' = "idle"
    /\ UNCHANGED summary

\* lines 54-56: process_articles(articles) is called
CycleCallsProcess ==
    /\ cpc = "fetch"
    /\ fpc = "done"
    /\ all_articles # <<>>
    /\ cpc' = "process"
    /\ raw_articles' = all_articles
    /\ ppc' = "loop"
    /\ pidx' = 0
    /\ processed' = <<>>
    /\ results' = <<>>
    /\ UNCHANGED summary

\* lines 58-60: no record was accepted, the cycle returns
CycleNothingProcessed ==
    /\ cpc = "process"
    /\ ppc = "done"
    /\ processed = <<>>
    /\ cpc' = "idle"
    /\ UNCHANGED summary

\* the step to write_articles as it would be without the test of lines 58-60
CycleCallsWriteMutNoEmptyTest ==
    /\ cpc = "process"
    /\ ppc = "done"
    /\ cpc' = "write"
    /\ articles' = processed
    /\ use_batching' = TRUE
    /\ wpc' = "start"
    /\ wi' = 0
    /\ wn' = 0
    /\ total_success' = 0
    /\ total_failed' = 0
    /\ success_count' = 0
    /\ failed_count' = 0
    /\ wresult' = <<>>
    /\ accepted' = {}
    /\ requests' = <<>>
    /\ UNCHANGED <<batch_size, summary>>

\* lines 62-86: the records are logged and handed to write_articles
CycleCallsWrite ==
    /\ cpc = "process"
    /\ ppc = "done"
    /\ processed # <<>>
    /\ cpc' = "write"
    /\ articles' = processed
    /\ use_batching' = TRUE
    /\ wpc' = "start"
    /\ wi' = 0
    /\ wn' = 0
    /\ total_success' = 0
    /\ total_failed' = 0
    /\ success_count' = 0
    /\ failed_count' = 0
    /\ wresult' = <<>>
    /\ accepted' = {}
    /\ requests' = <<>>
    /\ UNCHANGED <<batch_size, summary>>

\* lines 86-94: write_articles returned, the summary is logged and the
\* cycle returns
CycleLogsSummary ==
    /\ cpc = "write"
    /\ wpc = "done"
    /\ summary' = <<Len(all_articles), Len(processed), wresult[1], wresult[2]>>
    /\ cpc' = "idle"

\* lines 96-98: an Exception raised inside the cycle (write_articles, when
\* range() rejects a batch size of 0) is logged and raised again
CycleRaises ==
    /\ cpc = "write"
    /\ wpc = "raised"
    /\ cpc' = "idle"
    /\ UNCHANGED summary

\* A KeyboardInterrupt delivered while the cycle runs.  It is no Exception:
\* the handlers at newsapi_client.py 138, data_processor.py 143,
\* kinesis_writer.py 67-73 and 118-124 and main.py 96 let it pass, and the
\* calls in progress are abandoned where they stand.
CycleInterrupted ==
    /\ cpc \in {"fetch", "process", "write"}
    /\ cpc' = "interrupted"
    /\ UNCHANGED summary


(***************************************************************************)
(* Scheduler.run_periodic (scheduler.py 22-56)                             *)
(***************************************************************************)
SchedInit ==
    /\ running = FALSE
    /\ iteration = 0
    /\ max_iterations \in {None} \cup {<<m>> : m \in 0..MaxIterArg}
    /\ spc = "idle"
    /\ outcome = "none"
    /\ taskCalls = 0
    /\ interrupted = FALSE
    /\ stopCalled = FALSE
    /\ sleeps = 0

\* lines 30-33: self.running = True; iteration = 0
RunPeriodic ==
    /\ spc = "idle"
    /\ running' = TRUE
    /\ iteration' = 0
    /\ spc' = "loop"
    /\ UNCHANGED <<max_iterations, outcome, taskCalls, interrupted, stopCalled, sleeps>>

\* lines 35-40: the while test succeeds, iteration += 1 and task() is called
IterationStart ==
    /\ spc = "loop"
    /\ running
    /\ iteration < MaxIteration
    /\ iteration' = iteration + 1
    /\ taskCalls' = taskCalls + 1
    /\ spc' = "task"
    /\ UNCHANGED <<running, max_iterations, outcome, interrupted, stopCalled, sleeps>>

\* line 35: the while test fails, run_periodic returns
LoopExit ==
    /\ spc = "loop"
    /\ ~running
    /\ spc' = "returned"
    /\ UNCHANGED <<running, iteration, max_iterations, outcome, taskCalls,
                   interrupted, stopCalled, sleeps>>

\* lines 42-47: task() returned normally
AfterTaskReturn ==
    /\ spc = "task"
    /\ outcome' = "ok"
    /\ IF TruthyOptInt(max_iterations) /\ iteration >= max_iterations[1]
         THEN spc' = "returned"
         ELSE spc' = "sleep"
    /\ UNCHANGED <<running, iteration, max_iterations, taskCalls,
                   interrupted, stopCalled, sleeps>>

\* task() raised an Exception, as it would go if the exception ended the loop
AfterTaskRaiseMutReturn ==
    /\ spc = "task"
    /\ outcome' = "exc"
    /\ spc' = "returned"
    /\ UNCHANGED <<running, iteration, max_iterations, taskCalls,
                   interrupted, stopCalled, sleeps>>

\* task() raised an Exception, as it would go if the handler did not sleep
AfterTaskRaiseMutNoSleep ==
    /\ spc = "task"
    /\ outcome' = "exc"
    /\ spc' = "loop"
    /\ UNCHANGED <<running, iteration, max_iterations, taskCalls,
                   interrupted, stopCalled, sleeps>>

\* lines 53-56: task() raised an Exception; the handler is entered and sleeps
AfterTaskRaise ==
    /\ spc = "task"
    /\ outcome' = "exc"
    /\ spc' = "retry_sleep"
    /\ UNCHANGED <<running, iteration, max_iterations, taskCalls,
                   interrupted, stopCalled, sleeps>>

\* lines 49-52: a KeyboardInterrupt leaves task(); running = False; break
AfterTaskInterrupt ==
    /\ spc = "task"
    /\ outcome' = "kbint"
    /\ interrupted' = TRUE
    /\ running' = FALSE
    /\ spc' = "returned"
    /\ UNCHANGED <<iteration, max_iterations, taskCalls, stopCalled, sleeps>>

\* lines 35-38: a KeyboardInterrupt delivered between a sleep and the call
\* of task(): inside the try block (37-38) it is caught at 49-52, at the
\* while test (35) no handler of run_periodic covers it
LoopInterrupt ==
    /\ spc = "loop"
    /\ running
    /\ interrupted' = TRUE
    /\ \/ running' = FALSE /\ spc' = "returned"
       \/ running' = running /\ spc' = "propagated"
    /\ UNCHANGED <<iteration, max_iterations, outcome, taskCalls, stopCalled,
                   sleeps>>

\* line 47: time.sleep(self.interval_seconds) completes
SleepDone ==
    /\ spc = "sleep"
    /\ spc' = "loop"
    /\ sleeps' = sleeps + 1
    /\ UNCHANGED <<running, iteration, max_iterations, outcome, taskCalls,
                   interrupted, stopCalled>>

\* KeyboardInterrupt during the sleep, as it would go if the handler only
\* logged it
SleepInterruptMutIgnored ==
    /\ spc = "sleep"
    /\ interrupted' = TRUE
    /\ spc' = "loop"
    /\ UNCHANGED <<running, iteration, max_iterations, outcome, taskCalls,
                   stopCalled, sleeps>>

\* lines 47, 49-52: KeyboardInterrupt during the sleep inside the try block
SleepInterrupt ==
    /\ spc = "sleep"
    /\ interrupted' = TRUE
    /\ running' = FALSE
    /\ spc' = "returned"
    /\ UNCHANGED <<iteration, max_iterations, outcome, taskCalls, stopCalled, sleeps>>

\* line 56: the sleep of the except handler completes
RetrySleepDone ==
    /\ spc = "retry_sleep"
    /\ spc' = "loop"
    /\ sleeps' = sleeps + 1
    /\ UNCHANGED <<running, iteration, max_iterations, outcome, taskCalls,
                   interrupted, stopCalled>>

\* line 56: KeyboardInterrupt during the sleep of the except handler, which
\* no handler of run_periodic covers: it propagates to the caller
RetrySleepInterrupt ==
    /\ spc = "retry_sleep"
    /\ interrupted' = TRUE
    /\ spc' = "propagated"
    /\ UNCHANGED <<running, iteration, max_iterations, outcome, taskCalls,
                   stopCalled, sleeps>>

\* stop() as it would be if it left the flag that the loop tests alone
StopMutNoFlag ==
    /\ spc = "task"
    /\ ~stopCalled
    /\ stopCalled' = TRUE
    /\ UNCHANGED <<running, iteration, max_iterations, spc, outcome, taskCalls,
                   interrupted, sleeps>>

\* lines 58-60: Scheduler.stop(), called while the task runs
Stop ==
    /\ spc = "task"
    /\ ~stopCalled
    /\ running' = FALSE
    /\ stopCalled' = TRUE
    /\ UNCHANGED <<iteration, max_iterations, spc, outcome, taskCalls,
                   interrupted, sleeps>>


(***************************************************************************)
(* KinesisWriter (kinesis_writer.py)                                       *)
(***************************************************************************)
\* the writer holds no call: the state before write_articles is entered
WriterIdle ==
    /\ articles = <<>>
    /\ use_batching = TRUE
    /\ batch_size = 1
    /\ wpc = "idle"
    /\ wi = 0
    /\ wn = 0
    /\ total_success = 0
    /\ total_failed = 0
    /\ success_count = 0
    /\ failed_count = 0
    /\ wresult = <<>>
    /\ accepted = {}
    /\ requests = <<>>

\* lines 99-106: the response of client.put_records to a request of n
\* records of which the stream rejected those at the positions in F: one
\* entry per record, and the number of entries that carry an error
PutRecordsResponse(n, F) ==
    [Records |-> [k \in 1..n |-> IF k \in F THEN "ErrorCode" ELSE "SequenceNumber"],
     FailedRecordCount |-> Cardinality(F)]

\* the counts as they would be if the failed records were not subtracted
BatchCountsMutNoSubtract(response) ==
    <<Len(response.Records), response.FailedRecordCount>>

\* lines 104-116: (success_count, failed_count) read from a response
BatchCounts(response) ==
    <<Len(response.Records) - response.FailedRecordCount,
      response.FailedRecordCount>>

\* lines 118-124: ClientError or any other Exception of the request
BatchErrorCounts(batch) == <<0, Len(batch)>>

\* lines 137-139: write_articles(articles) with nothing to write
WriteEmpty ==
    /\ wpc = "start"
    /\ articles = <<>>
    /\ wresult' = <<0, 0>>
    /\ wpc' = "done"
    /\ UNCHANGED <<articles, use_batching, batch_size, wi, wn, total_success,
                   total_failed, success_count, failed_count, accepted,
                   requests>>

\* lines 141-147: the batch branch is chosen; range(0, len(articles),
\* self.batch_size) raises ValueError when the step is 0
WriteBatchBegin ==
    /\ wpc = "start"
    /\ articles # <<>>
    /\ use_batching /\ Len(articles) > 1
    /\ total_success' = 0
    /\ total_failed' = 0
    /\ wi' = 0
    /\ wpc' = IF batch_size = 0 THEN "raised" ELSE "batch"
    /\ UNCHANGED <<articles, use_batching, batch_size, wn, success_count,
                   failed_count, wresult, accepted, requests>>

\* the turn of the batch loop as it would be if a request that raised ended
\* the loop
WriteBatchChunkMutAbort ==
    /\ wpc = "batch"
    /\ wi < Len(articles)
    /\ LET hi    == Min(wi + batch_size, Len(articles))
           batch == SubSeq(articles, wi + 1, hi)
       IN  /\ requests' = Append(requests, [kind |-> "put_records", records |-> batch])
           /\ \E answer \in {"response", "ClientError", "Exception"} :
                IF answer = "response"
                  THEN \E F \in SUBSET (1..Len(batch)) :
                         LET counts == BatchCounts(PutRecordsResponse(Len(batch), F))
                         IN  /\ total_success' = total_success + counts[1]
                             /\ total_failed' = total_failed + counts[2]
                             /\ accepted' = accepted \cup
                                   {wi + k : k \in (1..Len(batch)) \ F}
                             /\ wi' = wi + batch_size
                  ELSE /\ total_success' = total_success
                       /\ total_failed' = total_failed + (Len(articles) - wi)
                       /\ accepted' = accepted
                       /\ wi' = Len(articles)
    /\ UNCHANGED <<articles, use_batching, batch_size, wpc, wn, success_count,
                   failed_count, wresult>>

\* lines 147-155 with _put_records_batch (75-124): one chunk is sent, and
\* the stream answers with per-record results (F the rejected positions of
\* the chunk) or the request fails as a whole
WriteBatchChunk ==
    /\ wpc = "batch"
    /\ wi < Len(articles)
    /\ LET hi    == Min(wi + batch_size, Len(articles))
           batch == SubSeq(articles, wi + 1, hi)
       IN  /\ requests' = Append(requests, [kind |-> "put_records", records |-> batch])
           /\ \E answer \in {"response", "ClientError", "Exception"} :
                IF answer = "response"
                  THEN \E F \in SUBSET (1..Len(batch)) :
                         LET counts == BatchCounts(PutRecordsResponse(Len(batch), F))
                         IN  /\ total_success' = total_success + counts[1]
                             /\ total_failed' = total_failed + counts[2]
                             /\ accepted' = accepted \cup
                                   {wi + k : k \in (1..Len(batch)) \ F}
                  ELSE LET counts == BatchErrorCounts(batch)
                       IN  /\ total_success' = total_success + counts[1]
                           /\ total_failed' = total_failed + counts[2]
                           /\ accepted' = accepted
    /\ wi' = wi + batch_size
    /\ UNCHANGED <<articles, use_batching, batch_size, wpc, wn, success_count,
                   failed_count, wresult>>

\* line 157: the batch loop is exhausted
WriteBatchReturn ==
    /\ wpc = "batch"
    /\ wi >= Len(articles)
    /\ wresult' = <<total_success, total_failed>>
    /\ wpc' = "done"
    /\ UNCHANGED <<articles, use_batching, batch_size, wi, wn, total_success,
                   total_failed, success_count, failed_count, accepted,
                   requests>>

\* lines 158-161: the single-record branch is chosen
WriteSingleBegin ==
    /\ wpc = "start"
    /\ articles # <<>>
    /\ ~(use_batching /\ Len(articles) > 1)
    /\ success_count' = 0
    /\ failed_count' = 0
    /\ wn' = 0
    /\ wpc' = "single"
    /\ UNCHANGED <<articles, use_batching, batch_size, wi, total_success,
                   total_failed, wresult, accepted, requests>>

\* lines 163-170 with _put_record (38-73): one record is sent; put_record
\* answers, or raises ClientError or another Exception (_put_record False)
WriteSingleRecord ==
    /\ wpc = "single"
    /\ wn < Len(articles)
    /\ requests' = Append(requests,
                     [kind |-> "put_record", records |-> <<articles[wn + 1]>>])
    /\ \E answer \in {"response", "ClientError", "Exception"} :
         IF answer = "response"
           THEN /\ success_count' = success_count + 1
                /\ failed_count' = failed_count
                /\ accepted' = accepted \cup {wn + 1}
           ELSE /\ success_count' = success_count
                /\ failed_count' = failed_count + 1
                /\ accepted' = accepted
    /\ wn' = wn + 1
    /\ UNCHANGED <<articles, use_batching, batch_size, wpc, wi, total_success,
                   total_failed, wresult>>

\* line 172: the single-record loop is exhausted
WriteSingleReturn ==
    /\ wpc = "single"
    /\ wn >= Len(articles)
    /\ wresult' = <<success_count, failed_count>>
    /\ wpc' = "done"
    /\ UNCHANGED <<articles, use_batching, batch_size, wi, wn, total_success,
                   total_failed, success_count, failed_count, accepted,
                   requests>>

(***************************************************************************)
(* main (main.py 101-154) with Config (config.py) and                      *)
(* KinesisWriter.test_connection (kinesis_writer.py 174-195)               *)
(***************************************************************************)
\* config.py 8-39: the names the class Config defines
ConfigAttributes ==
    {"NEWSAPI_KEY", "NEWSAPI_BASE_URL", "NEWSAPI_QUERY", "NEWSAPI_PAGE_SIZE",
     "NEWSAPI_SORT_BY", "NEWSAPI_LANGUAGE", "AWS_REGION", "KINESIS_STREAM_NAME",
     "KINESIS_BATCH_SIZE", "POLL_INTERVAL_SECONDS", "MAX_RETRIES",
     "RETRY_DELAY_SECONDS", "LOG_LEVEL", "validate"}

\* reading Config.<name>: it succeeds for a name the class defines and raises
\* AttributeError for any other
HasConfigAttr(name) == name \in ConfigAttributes

\* Config.validate() as it would be if it tested NEWSAPI_KEY only
validateMutKeyOnly == NEWSAPI_KEY # <<>>

\* config.py 33-39: Config.validate() returns True (TRUE) or raises
\* ValueError (FALSE)
validate == NEWSAPI_KEY # <<>> /\ KINESIS_STREAM_NAME # <<>>

\* what client.describe_stream can answer: a StreamStatus, a description
\* without one, or an exception
DescribeOutcomes ==
    {"ACTIVE", "UPDATING", "CREATING", "DELETING", "NoStatus",
     "ResourceNotFoundException", "ClientError", "Exception"}

\* kinesis_writer.py 174-195
test_connection(answer) ==
    IF answer \in {"ResourceNotFoundException", "ClientError", "Exception"}
      THEN FALSE
      ELSE answer \in {"ACTIVE", "UPDATING"}

\* main is not running: the components are used on their own
MainIdle ==
    /\ NEWSAPI_KEY = <<"k">>
    /\ KINESIS_STREAM_NAME = <<"s">>
    /\ LOG_LEVEL = "INFO"
    /\ stream_status = "ACTIVE"
    /\ mpc = "idle"
    /\ fatal = "none"
    /\ exit_code = None

\* main.py 147: main is inside its try block, about to call
\* scheduler.run_periodic(ingestion_task)
MainCallsRunPeriodic ==
    /\ NEWSAPI_KEY = <<"k">>
    /\ KINESIS_STREAM_NAME = <<"s">>
    /\ LOG_LEVEL = "INFO"
    /\ stream_status = "ACTIVE"
    /\ mpc = "run_periodic"
    /\ fatal = "none"
    /\ exit_code = None

\* main.py 152-154: an Exception raised in the try block is logged and the
\* process exits with status 1
MainFatal(exception) ==
    /\ fatal' = exception
    /\ mpc' = "exited"
    /\ exit_code' = <<1>>
    /\ UNCHANGED <<NEWSAPI_KEY, KINESIS_STREAM_NAME, LOG_LEVEL, stream_status>>

\* the level names the logging module defines
LoggingLevels == {"CRITICAL", "ERROR", "WARNING", "INFO", "DEBUG", "NOTSET"}

\* main.py 103 with setup_logging (13-19): getattr(logging, LOG_LEVEL) raises
\* AttributeError for a name that logging does not define; this is outside
\* the try block of main, and the process ends with the traceback, status 1
MainSetupLogging ==
    /\ mpc = "setup_logging"
    /\ IF LOG_LEVEL \in LoggingLevels
         THEN /\ mpc' = "validate"
              /\ UNCHANGED <<NEWSAPI_KEY, KINESIS_STREAM_NAME, LOG_LEVEL,
                             stream_status, fatal, exit_code>>
         ELSE MainFatal("AttributeError")

\* main.py 106-110: Config.validate()
MainValidate ==
    /\ mpc = "validate"
    /\ IF validate
         THEN /\ mpc' = "init"
              /\ UNCHANGED <<NEWSAPI_KEY, KINESIS_STREAM_NAME, LOG_LEVEL,
                             stream_status, fatal, exit_code>>
         ELSE MainFatal("ValueError")

\* main.py 112-120: the components are constructed; the arguments of
\* KinesisWriter(...) read Config.AWS_ENDPOINT_URL
MainInitComponents ==
    /\ mpc = "init"
    /\ IF HasConfigAttr("AWS_ENDPOINT_URL")
         THEN /\ mpc' = "test"
              /\ UNCHANGED <<NEWSAPI_KEY, KINESIS_STREAM_NAME, LOG_LEVEL,
                             stream_status, fatal, exit_code>>
         ELSE MainFatal("AttributeError")

\* main.py 122-126: the health check; sys.exit(1) when it returns False
MainTestConnection ==
    /\ mpc = "test"
    /\ IF test_connection(stream_status)
         THEN /\ mpc' = "start"
              /\ UNCHANGED <<NEWSAPI_KEY, KINESIS_STREAM_NAME, LOG_LEVEL,
                             stream_status, fatal, exit_code>>
         ELSE /\ fatal' = "SystemExit"
              /\ mpc' = "exited"
              /\ exit_code' = <<1>>
              /\ UNCHANGED <<NEWSAPI_KEY, KINESIS_STREAM_NAME, LOG_LEVEL, stream_status>>

\* main.py 128-147: the task and the Scheduler are created and the start is
\* logged, the log line of 144 reading Config.HOURS_BACK; then run_periodic
\* is called
MainStartsScheduler ==
    /\ mpc = "start"
    /\ IF HasConfigAttr("HOURS_BACK")
         THEN /\ mpc' = "run_periodic"
              /\ UNCHANGED <<NEWSAPI_KEY, KINESIS_STREAM_NAME, LOG_LEVEL,
                             stream_status, fatal, exit_code>>
         ELSE MainFatal("AttributeError")

\* main.py 149-151: a KeyboardInterrupt delivered during the startup; no
\* handler below main catches it (test_connection catches Exception only)
MainStartupInterrupt ==
    /\ mpc \in {"validate", "init", "test", "start"}
    /\ fatal' = "KeyboardInterrupt"
    /\ mpc' = "exited"
    /\ exit_code' = <<0>>
    /\ UNCHANGED <<NEWSAPI_KEY, KINESIS_STREAM_NAME, LOG_LEVEL, stream_status>>

\* main.py 147, 157-158: run_periodic returned; main returns and the process
\* ends with status 0
MainReturns ==
    /\ mpc = "run_periodic"
    /\ spc = "returned"
    /\ mpc' = "exited"
    /\ exit_code' = <<0>>
    /\ UNCHANGED <<NEWSAPI_KEY, KINESIS_STREAM_NAME, LOG_LEVEL, stream_status,
                   fatal>>

\* main.py 149-151: a KeyboardInterrupt left run_periodic; sys.exit(0)
MainCatchesInterrupt ==
    /\ mpc = "run_periodic"
    /\ spc = "propagated"
    /\ fatal' = "KeyboardInterrupt"
    /\ mpc' = "exited"
    /\ exit_code' = <<0>>
    /\ UNCHANGED <<NEWSAPI_KEY, KINESIS_STREAM_NAME, LOG_LEVEL, stream_status>>

(***************************************************************************)
(* Specification of the Scheduler alone, driving an arbitrary task: every  *)
(* invocation returns, raises an Exception or is interrupted.              *)
(***************************************************************************)
\* the variables of the other components, which the Scheduler never touches
notSchedVars == <<writerVars, procVars, fetchVars, cycleVars, mainVars>>

InitSched ==
    /\ SchedInit
    /\ WriterIdle
    /\ ProcessorIdle
    /\ FetcherIdle
    /\ CycleIdle
    /\ MainIdle

NextSched ==
    \/ RunPeriodic /\ UNCHANGED notSchedVars
    \/ IterationStart /\ UNCHANGED notSchedVars
    \/ LoopExit /\ UNCHANGED notSchedVars
    \/ AfterTaskReturn /\ UNCHANGED notSchedVars
    \/ AfterTaskRaise /\ UNCHANGED notSchedVars
    \/ AfterTaskInterrupt /\ UNCHANGED notSchedVars
    \/ LoopInterrupt /\ UNCHANGED notSchedVars
    \/ SleepDone /\ UNCHANGED notSchedVars
    \/ SleepInterrupt /\ UNCHANGED notSchedVars
    \/ RetrySleepDone /\ UNCHANGED notSchedVars
    \/ RetrySleepInterrupt /\ UNCHANGED notSchedVars
    \/ Stop /\ UNCHANGED notSchedVars

SpecSched == InitSched /\ [][NextSched]_vars

\* the scheduler's own steps always complete: a called task ends (here by
\* returning or raising), a sleep ends, the while test is evaluated.  The
\* interrupt and stop() are the environment's and carry no fairness.
FairSpecSched ==
    /\ SpecSched
    /\ WF_vars(RunPeriodic /\ UNCHANGED notSchedVars)
    /\ WF_vars(IterationStart /\ UNCHANGED notSchedVars)
    /\ WF_vars(LoopExit /\ UNCHANGED notSchedVars)
    /\ WF_vars((AfterTaskReturn \/ AfterTaskRaise) /\ UNCHANGED notSchedVars)
    /\ WF_vars(SleepDone /\ UNCHANGED notSchedVars)
    /\ WF_vars(RetrySleepDone /\ UNCHANGED notSchedVars)

(***************************************************************************)
(* Specification of write_articles alone: one call, on N canonical records *)
(* with pairwise distinct ids, for each batch size and each pattern of     *)
(* answers of the stream.                                                  *)
(***************************************************************************)
\* the scheduler is not running
SchedParked ==
    /\ SchedInit
    /\ max_iterations = None

\* a canonical record, as process_article builds it; the i-th has the id "a"*i
SampleArticle(i) ==
    [article_id   |-> Rep("a", i),
     source_name  |-> <<"s">>,
     title        |-> <<"t">>,
     content      |-> <<>>,
     url          |-> <<"u">>,
     author       |-> <<"x">>,
     published_at |-> NoneStr]

notWriterVars == <<schedVars, procVars, fetchVars, cycleVars, mainVars>>

InitWriter ==
    /\ SchedParked
    /\ ProcessorIdle
    /\ FetcherIdle
    /\ CycleIdle
    /\ MainIdle
    /\ \E n \in 0..MaxArticles : articles = [i \in 1..n |-> SampleArticle(i)]
    /\ use_batching \in BOOLEAN
    /\ batch_size \in (0..MaxBatchSize) \cup {DefaultBatchSize}
    /\ wpc = "start"
    /\ wi = 0
    /\ wn = 0
    /\ total_success = 0
    /\ total_failed = 0
    /\ success_count = 0
    /\ failed_count = 0
    /\ wresult = <<>>
    /\ accepted = {}
    /\ requests = <<>>

NextWriter ==
    \/ WriteEmpty /\ UNCHANGED notWriterVars
    \/ WriteBatchBegin /\ UNCHANGED notWriterVars
    \/ WriteBatchChunk /\ UNCHANGED notWriterVars
    \/ WriteBatchReturn /\ UNCHANGED notWriterVars
    \/ WriteSingleBegin /\ UNCHANGED notWriterVars
    \/ WriteSingleRecord /\ UNCHANGED notWriterVars
    \/ WriteSingleReturn /\ UNCHANGED notWriterVars

SpecWriter == InitWriter /\ [][NextWriter]_vars


(***************************************************************************)
(* Specification of process_articles alone: one call on a list of raw      *)
(* records.                                                                *)
(***************************************************************************)
\* a well-formed raw record of the search API
BaseRaw ==
    [url         |-> <<"u">>,
     title       |-> <<"t">>,
     source      |-> "dict",
     source_name |-> <<"s">>,
     author      |-> <<"x">>,
     content     |-> <<"c">>,
     description |-> <<"d">>,
     publishedAt |-> <<DateTimeToken, "Z">>]

UrlValues == {Missing, NoneStr, <<>>, <<"a">>, <<"a", ":">>}

TitleValues == {Missing, NoneStr, <<>>, <<" ">>, <<"a">>, <<"a", " ">>, <<":", "a">>}

\* the raw records explored: every url with every title, and the records
\* whose source is null or absent
RawRecords ==
    {[BaseRaw EXCEPT !.url = u, !.title = t] : u \in UrlValues, t \in TitleValues}
    \cup {[BaseRaw EXCEPT !.source = src] : src \in {"none", "missing"}}

RECURSIVE ListsUpTo(_, _)
ListsUpTo(S, n) ==
    IF n = 0 THEN {<<>>}
    ELSE LET shorter == ListsUpTo(S, n - 1)
         IN  shorter \cup {Append(l, x) : l \in shorter, x \in S}

notProcVars == <<schedVars, writerVars, fetchVars, cycleVars, mainVars>>

InitProc ==
    /\ SchedParked
    /\ WriterIdle
    /\ FetcherIdle
    /\ CycleIdle
    /\ MainIdle
    /\ raw_articles \in ListsUpTo(RawRecords, MaxRawList)
    /\ ppc = "loop"
    /\ pidx = 0
    /\ processed = <<>>
    /\ results = <<>>

NextProc ==
    \/ ProcessNextArticle /\ UNCHANGED notProcVars
    \/ ProcessArticlesReturn /\ UNCHANGED notProcVars

SpecProc == InitProc /\ [][NextProc]_vars


(***************************************************************************)
(* Specification of the normalisation of one raw record: process_articles  *)
(* on a list of one record, whose free-text fields take every text over a  *)
(* small alphabet (a letter, the space and another whitespace character)   *)
(* and every way of being absent.                                          *)
(***************************************************************************)
TextAlphabet == {"a"} \cup Whitespace

\* every str of at most MaxTextLen characters
Texts == ListsUpTo(TextAlphabet, MaxTextLen)

\* a description: the text "Fallback text"
FallbackText ==
    <<"F", "a", "l", "l", "b", "a", "c", "k", " ", "t", "e", "x", "t">>

\* what a raw record can hold under an optional text key: nothing, null or
\* a text
OptionalTexts == {Missing, NoneStr, <<>>, <<" ">>, <<"\t", " ">>, <<"a">>,
                  <<" ", "a", "\t">>, <<"a", " ", "\t", "a">>}

NormRecords ==
    \* the source name and the title, over all texts
    {[BaseRaw EXCEPT !.source_name = t] : t \in Texts \cup {Missing, NoneStr}}
    \cup {[BaseRaw EXCEPT !.title = t] : t \in Texts}
    \* the author and the source
    \cup {[BaseRaw EXCEPT !.author = a, !.source = src, !.source_name = n] :
             a \in OptionalTexts, src \in {"dict", "none", "missing"},
             n \in {Missing, NoneStr, <<>>, <<" ">>, <<"s">>}}
    \* the content and the description
    \cup {[BaseRaw EXCEPT !.content = c, !.description = d] :
             c \in OptionalTexts \cup {Removed, <<" ">> \o Removed},
             d \in OptionalTexts \cup {FallbackText}}
    \* the timestamp: absent, null, empty, well formed and unparseable
    \cup {[BaseRaw EXCEPT !.publishedAt = p] :
             p \in {Missing, NoneStr, <<>>, <<DateTimeToken>>,
                    <<DateTimeToken, "Z">>, <<DateTimeToken, "+00:00">>,
                    <<"x">>, <<DateTimeToken, "x">>}}

InitNorm ==
    /\ SchedParked
    /\ WriterIdle
    /\ FetcherIdle
    /\ CycleIdle
    /\ MainIdle
    /\ raw_articles \in {<<r>> : r \in NormRecords}
    /\ ppc = "loop"
    /\ pidx = 0
    /\ processed = <<>>
    /\ results = <<>>

SpecNorm == InitNorm /\ [][NextProc]_vars


(***************************************************************************)
(* Specification of fetch_all_articles alone: one call, for each page size *)
(* and max_pages, against a search API that answers each request with an   *)
(* error or with any page of at most the requested size and any            *)
(* totalResults.                                                           *)
(***************************************************************************)
\* the raw records the search API serves: one that the normaliser accepts
\* and one that it rejects
FetchPool ==
    {[BaseRaw EXCEPT !.url = <<"a">>], [BaseRaw EXCEPT !.title = NoneStr]}

notFetchVars == <<schedVars, writerVars, procVars, cycleVars, mainVars>>

InitFetch ==
    /\ SchedParked
    /\ WriterIdle
    /\ ProcessorIdle
    /\ CycleIdle
    /\ MainIdle
    /\ page_size \in 1..MaxPageSize
    /\ max_pages \in {None} \cup {<<m>> : m \in 0..MaxPagesArg}
    /\ fpc = "start"
    /\ page = 1
    /\ all_articles = <<>>
    /\ pageLog = <<>>

FetchPage ==
    \E pageArticles \in ListsUpTo(FetchPool, RequestPageSize) :
        \E total_results \in 0..MaxTotal :
            FetchPageAnswered(pageArticles, total_results)

NextFetch ==
    \/ FetchBegin /\ UNCHANGED notFetchVars
    \/ FetchPageFails /\ UNCHANGED notFetchVars
    \/ FetchPage /\ UNCHANGED notFetchVars

SpecFetch == InitFetch /\ [][NextFetch]_vars


(***************************************************************************)
(* Specification of fetch_all_articles against a steady search API: no     *)
(* request fails, totalResults is the same number T in every answer, and   *)
(* page p holds the records (p - 1) * pageSize + 1 .. p * pageSize of the  *)
(* T, pageSize being the page size of the request.  The configured page    *)
(* size ranges below and above the API maximum.                            *)
(***************************************************************************)
SteadyPageSizes == {(ApiMaxPageSize * k) \div 2 : k \in 1..MaxSizeSteps}

SteadyTotals == {(ApiMaxPageSize * j) \div 4 : j \in 0..MaxTotalSteps}

\* the records of page p when T records match, pageSize records to a page
ServedPage(p, pageSize, T) ==
    LET first == (p - 1) * pageSize + 1
        last  == Min(p * pageSize, T)
    IN  [k \in 1..(IF last >= first THEN last - first + 1 ELSE 0) |->
            [BaseRaw EXCEPT !.url = <<"a">>]]

InitFetchSteady ==
    /\ SchedParked
    /\ WriterIdle
    /\ ProcessorIdle
    /\ CycleIdle
    /\ MainIdle
    /\ page_size \in SteadyPageSizes
    /\ max_pages = None
    /\ fpc = "start"
    /\ page = 1
    /\ all_articles = <<>>
    /\ pageLog = <<>>

\* the API answers the request of the page; T is chosen with the first
\* answer and kept
SteadyFetchPage ==
    \E T \in SteadyTotals :
        /\ pageLog # <<>> => T = pageLog[1].totalResults
        /\ FetchPageAnswered(ServedPage(page, RequestPageSize, T), T)

NextFetchSteady ==
    \/ FetchBegin /\ UNCHANGED notFetchVars
    \/ SteadyFetchPage /\ UNCHANGED notFetchVars

SpecFetchSteady == InitFetchSteady /\ [][NextFetchSteady]_vars


(***************************************************************************)
(* Specification of the process: main() from its first line, for each      *)
(* value of the required configuration and each state of the stream.       *)
(* Config defines neither AWS_ENDPOINT_URL nor HOURS_BACK, so that the      *)
(* construction of the components (main.py 116-120) raises AttributeError: *)
(* MainTestConnection and MainStartsScheduler are never reached, and they   *)
(* are no steps of this specification.                                     *)
(***************************************************************************)
notMainVars == <<schedVars, writerVars, procVars, fetchVars, cycleVars>>

InitMain ==
    /\ SchedParked
    /\ WriterIdle
    /\ ProcessorIdle
    /\ FetcherIdle
    /\ CycleIdle
    /\ NEWSAPI_KEY \in {<<>>, <<"k">>}
    /\ KINESIS_STREAM_NAME \in {<<>>, <<"s">>}
    /\ LOG_LEVEL \in {"INFO", "VERBOSE"}
    /\ stream_status \in DescribeOutcomes
    /\ mpc = "setup_logging"
    /\ fatal = "none"
    /\ exit_code = None

NextMain ==
    \/ MainSetupLogging /\ UNCHANGED notMainVars
    \/ MainValidate /\ UNCHANGED notMainVars
    \/ MainInitComponents /\ UNCHANGED notMainVars
    \/ MainStartupInterrupt /\ UNCHANGED notMainVars

SpecMain == InitMain /\ [][NextMain]_vars


(***************************************************************************)
(* Specification of the pipeline: run_periodic(ingestion_task) with        *)
(* max_iterations None, each ingest_news_cycle fetching from the search    *)
(* API, normalising and writing to the stream.  It starts where main calls *)
(* run_periodic (main.py 147), the components being constructed, and ends  *)
(* with the exit of main once run_periodic has ended.                      *)
(***************************************************************************)
Init ==
    /\ SchedParked
    /\ CycleIdle
    /\ MainCallsRunPeriodic
    /\ page_size \in 1..MaxPageSize
    /\ max_pages = None
    /\ fpc = "idle"
    /\ page = 1
    /\ all_articles = <<>>
    /\ pageLog = <<>>
    /\ ProcessorIdle
    /\ articles = <<>>
    /\ use_batching = TRUE
    /\ batch_size \in {0, 1, DefaultBatchSize}
    /\ wpc = "idle"
    /\ wi = 0
    /\ wn = 0
    /\ total_success = 0
    /\ total_failed = 0
    /\ success_count = 0
    /\ failed_count = 0
    /\ wresult = <<>>
    /\ accepted = {}
    /\ requests = <<>>

\* the search API answers the request of a page
CycleFetchPage ==
    \E pageArticles \in ListsUpTo(FetchPool, RequestPageSize) :
        \E total_results \in 0..MaxCycleTotal :
            FetchPageAnswered(pageArticles, total_results)

Next ==
    \* run_periodic between two cycles; nothing calls stop(), so that the
    \* while test (LoopExit) never fails
    \/ RunPeriodic /\ UNCHANGED notSchedVars
    \/ IterationStart /\ iteration < MaxCycles /\ UNCHANGED notSchedVars
    \/ LoopInterrupt /\ UNCHANGED notSchedVars
    \/ SleepDone /\ UNCHANGED notSchedVars
    \/ SleepInterrupt /\ UNCHANGED notSchedVars
    \/ RetrySleepDone /\ UNCHANGED notSchedVars
    \/ RetrySleepInterrupt /\ UNCHANGED notSchedVars
    \* the cycle, called by run_periodic
    \/ spc = "task" /\ CycleCallsFetch
         /\ UNCHANGED <<schedVars, mainVars>>
    \/ cpc = "fetch" /\ FetchBegin
         /\ UNCHANGED <<schedVars, writerVars, procVars, cycleVars, mainVars>>
    \/ cpc = "fetch" /\ FetchPageFails
         /\ UNCHANGED <<schedVars, writerVars, procVars, cycleVars, mainVars>>
    \/ cpc = "fetch" /\ CycleFetchPage
         /\ UNCHANGED <<schedVars, writerVars, procVars, cycleVars, mainVars>>
    \/ CycleNothingFetched /\ AfterTaskReturn
         /\ UNCHANGED <<writerVars, procVars, fetchVars, mainVars>>
    \/ CycleCallsProcess
         /\ UNCHANGED <<schedVars, writerVars, fetchVars, mainVars>>
    \/ cpc = "process" /\ ProcessNextArticle
         /\ UNCHANGED <<schedVars, writerVars, fetchVars, cycleVars, mainVars>>
    \/ cpc = "process" /\ ProcessArticlesReturn
         /\ UNCHANGED <<schedVars, writerVars, fetchVars, cycleVars, mainVars>>
    \/ CycleNothingProcessed /\ AfterTaskReturn
         /\ UNCHANGED <<writerVars, procVars, fetchVars, mainVars>>
    \/ CycleCallsWrite
         /\ UNCHANGED <<schedVars, procVars, fetchVars, mainVars>>
    \/ cpc = "write" /\ WriteBatchBegin
         /\ UNCHANGED <<schedVars, procVars, fetchVars, cycleVars, mainVars>>
    \/ cpc = "write" /\ WriteBatchChunk
         /\ UNCHANGED <<schedVars, procVars, fetchVars, cycleVars, mainVars>>
    \/ cpc = "write" /\ WriteBatchReturn
         /\ UNCHANGED <<schedVars, procVars, fetchVars, cycleVars, mainVars>>
    \/ cpc = "write" /\ WriteSingleBegin
         /\ UNCHANGED <<schedVars, procVars, fetchVars, cycleVars, mainVars>>
    \/ cpc = "write" /\ WriteSingleRecord
         /\ UNCHANGED <<schedVars, procVars, fetchVars, cycleVars, mainVars>>
    \/ cpc = "write" /\ WriteSingleReturn
         /\ UNCHANGED <<schedVars, procVars, fetchVars, cycleVars, mainVars>>
    \/ CycleLogsSummary /\ AfterTaskReturn
         /\ UNCHANGED <<writerVars, procVars, fetchVars, mainVars>>
    \/ CycleRaises /\ AfterTaskRaise
         /\ UNCHANGED <<writerVars, procVars, fetchVars, mainVars>>
    \/ CycleInterrupted /\ AfterTaskInterrupt
         /\ UNCHANGED <<writerVars, procVars, fetchVars, mainVars>>
    \* main, once run_periodic has ended
    \/ MainReturns /\ UNCHANGED notMainVars
    \/ MainCatchesInterrupt /\ UNCHANGED notMainVars

Spec == Init /\ [][Next]_vars

(***************************************************************************)
(* Properties of the Scheduler.                                            *)
(***************************************************************************)

\* C1: for max_iterations = M >= 1, with no interrupt and no stop(), the
\* task is never invoked more than M times, and when run_periodic has
\* returned it was invoked exactly M times, whether the invocations
\* returned or raised.
C1_ExactlyMaxIterations ==
    (TruthyOptInt(max_iterations) /\ ~interrupted /\ ~stopCalled) =>
        /\ taskCalls <= max_iterations[1]
        /\ (spc = "returned" => taskCalls = max_iterations[1])

C3_DeliveryCounts ==
    batch_size >= 1 =>
        /\ wpc # "raised"
        /\ wpc = "done" =>
             wresult = <<Cardinality(accepted),
                         Len(articles) - Cardinality(accepted)>>

\* one put_records request of 10 records, 3 of them reported failed: (7, 3)
C3_Witness ==
    /\ wpc = "done"
    /\ Len(articles) = 10
    /\ Len(requests) = 1
    /\ requests[1].kind = "put_records"
    /\ Cardinality(accepted) = 7
    /\ wresult = <<7, 3>>

\* C4: at-least-once delivery: when write_articles has returned (its records
\* are not kept by the pipeline), every record handed to it has been
\* accepted by the stream, a failed write having been submitted again.
C4_AtLeastOnce ==
    wpc = "done" => accepted = 1..Len(articles)

(***************************************************************************)
(* Properties of the normaliser.                                           *)
(***************************************************************************)
\* the (url, title) pair of a raw record
UrlTitle(article) == <<Get(article.url, <<>>), Get(article.title, <<>>)>>

\* C7: the id is an injective function of (url, title): two accepted raw
\* records have the same id exactly when they have the same url and the
\* same title.
C7_IdInjective ==
    \A i, j \in DOMAIN results :
        (results[i].kind = "ok" /\ results[j].kind = "ok") =>
            ((results[i].rec.article_id = results[j].rec.article_id)
                <=> (UrlTitle(raw_articles[i]) = UrlTitle(raw_articles[j])))

\* a raw record must be omitted: url or title absent, null or empty, or the
\* title empty once cleaned
MustReject(article) ==
    \/ Falsy(Get(article.url, <<>>))
    \/ Falsy(Get(article.title, <<>>))
    \/ clean_text(Get(article.title, <<>>)) = <<>>

\* the records process_article accepted, in input order
RECURSIVE AcceptedOf(_)
AcceptedOf(rs) ==
    IF rs = <<>> THEN <<>>
    ELSE IF Head(rs).kind = "ok" THEN <<Head(rs).rec>> \o AcceptedOf(Tail(rs))
    ELSE AcceptedOf(Tail(rs))

\* C8: process_articles never raises; it omits every record whose url or
\* title is missing or empty (also a title empty after cleaning); it goes
\* through all the records of the list, returning the accepted ones in
\* order; and every record it returns has a non-empty id, title and url.
C8_ProcessArticles ==
    /\ ppc # "raised"
    /\ \A i \in DOMAIN results :
         /\ results[i].kind \in {"ok", "none"}
         /\ MustReject(raw_articles[i]) => results[i].kind = "none"
    /\ processed = AcceptedOf(results)
    /\ ppc = "done" => Len(results) = Len(raw_articles)
    /\ \A k \in DOMAIN processed :
         /\ ~Falsy(processed[k].article_id)
         /\ ~Falsy(processed[k].title)
         /\ ~Falsy(processed[k].url) /\ processed[k].url # Missing

\* a record whose title is blank was omitted and the record after it kept
C8_Witness ==
    /\ ppc = "done"
    /\ Len(raw_articles) = 2
    /\ raw_articles[1].title = <<" ">>
    /\ ~Falsy(Get(raw_articles[1].url, <<>>))
    /\ results[1].kind = "none"
    /\ results[2].kind = "ok"
    /\ Len(processed) = 1

(***************************************************************************)
(* Properties of the fetcher.                                              *)
(***************************************************************************)
\* the least q with q * b >= a
CeilDiv(a, b) == CHOOSE q \in 0..a : q * b >= a /\ (q - 1) * b < a

\* every request so far was answered, with a non-empty page and the same
\* totalResults = T >= 1
SteadyApi(T) ==
    /\ T >= 1
    /\ \A k \in DOMAIN pageLog :
         /\ pageLog[k].answer = "ok"
         /\ pageLog[k].articles # <<>>
         /\ pageLog[k].totalResults = T

\* a stop condition held after the k-th request
StopAfter(k) ==
    \/ pageLog[k].answer # "ok"
    \/ pageLog[k].articles = <<>>
    \/ k >= CeilDiv(pageLog[k].totalResults, page_size)
    \/ max_pages # None /\ max_pages[1] >= 1 /\ k >= max_pages[1]

\* C5: pages are requested in the order 1, 2, 3, ...; no page is requested
\* after a stop condition held; and when no page fails, every page is
\* non-empty and totalResults is a constant T >= 1, the call ends after
\* min(ceil(T / pageSize), maxPages) requests if maxPages >= 1 is given and
\* after ceil(T / pageSize) requests if it is None.
C5_PaginationStops ==
    /\ \A k \in DOMAIN pageLog : pageLog[k].page = k
    /\ \A k \in DOMAIN pageLog : k < Len(pageLog) => ~StopAfter(k)
    /\ \A T \in 1..(MaxTotal + 1) :
         (fpc = "done" /\ SteadyApi(T) /\ (max_pages = None \/ max_pages[1] >= 1)) =>
             Len(pageLog) = IF max_pages = None
                              THEN CeilDiv(T, page_size)
                              ELSE Min(CeilDiv(T, page_size), max_pages[1])

\* totalResults = 5 with pageSize = 2 and no maxPages: exactly 3 requests,
\* of 2 + 2 + 1 records
C5_Witness ==
    /\ fpc = "done"
    /\ page_size = 2
    /\ max_pages = None
    /\ SteadyApi(5)
    /\ Len(pageLog) = 3
    /\ Len(pageLog[1].articles) = 2
    /\ Len(pageLog[2].articles) = 2
    /\ Len(pageLog[3].articles) = 1
    /\ Len(all_articles) = 5

\* the records of the first n answered pages, in the order received
RECURSIVE PagesConcat(_)
PagesConcat(n) ==
    IF n = 0 THEN <<>> ELSE PagesConcat(n - 1) \o pageLog[n].articles

\* C6: when the request of page p fails, fetch_all_articles requests no
\* further page, does not raise, and returns the records of the pages
\* 1..p-1 in the order received.
C6_PageFailure ==
    /\ fpc # "raised"
    /\ \A p \in DOMAIN pageLog :
         pageLog[p].answer # "ok" =>
             /\ p = Len(pageLog)
             /\ fpc = "done"
             /\ all_articles = PagesConcat(p - 1)

\* the request of page 3 failed after two pages had been received
C6_Witness ==
    /\ fpc = "done"
    /\ Len(pageLog) = 3
    /\ pageLog[3].answer = "RequestException"
    /\ all_articles = pageLog[1].articles \o pageLog[2].articles
    /\ Len(all_articles) >= 2

(***************************************************************************)
(* Properties of the ingestion cycle.                                      *)
(***************************************************************************)
\* the records of the write requests of the current cycle, in order
RECURSIVE Flatten(_)
Flatten(reqs) ==
    IF reqs = <<>> THEN <<>> ELSE Head(reqs).records \o Flatten(Tail(reqs))

Submitted == Flatten(requests)

IdText(article) == Get(article.url, <<>>) \o <<":">> \o Get(article.title, <<>>)

CycleComplete ==
    /\ fpc = "done"
    /\ all_articles # <<>> => ppc = "done"
    /\ (all_articles # <<>> /\ processed # <<>>) => wpc \in {"done", "raised"}

\* C10: an interrupt received while a cycle is in flight does not cancel
\* the cycle: when the scheduler loop observes it and stops, the cycle has
\* run to completion.
C10_NoMidCycleCancel ==
    (spc = "returned" /\ outcome = "kbint") => CycleComplete

\* C11: within one cycle the fetch is complete before the normalisation
\* starts and the normalisation is complete before the delivery starts;
\* write_articles is not called in a cycle that fetched nothing or in which
\* no record was accepted; and the summary is logged only once
\* write_articles has returned, with the counts of that cycle.
C11_CycleOrder ==
    /\ fpc \in {"start", "loop"} => (ppc = "idle" /\ wpc = "idle")
    /\ ppc # "idle" => (fpc = "done" /\ raw_articles = all_articles)
    /\ ppc = "loop" => wpc = "idle"
    /\ wpc # "idle" =>
         /\ fpc = "done" /\ all_articles # <<>>
         /\ ppc = "done" /\ processed # <<>>
         /\ articles = processed
    /\ summary # <<>> =>
         /\ wpc = "done"
         /\ summary = <<Len(all_articles), Len(processed), wresult[1], wresult[2]>>

\* a cycle that fetched two records, accepted one of them and wrote it has
\* logged its summary
C11_Witness ==
    /\ cpc = "idle"
    /\ summary # <<>>
    /\ Len(all_articles) = 2
    /\ Len(processed) = 1
    /\ Len(requests) = 1

(***************************************************************************)
(* Properties of the Scheduler's timing.                                   *)
(***************************************************************************)

\* C12: task invocations never overlap and two consecutive ones are
\* separated by exactly one completed sleep: an invocation starts only from
\* the loop test, with the invocation before it finished (returned or
\* raised) and as many sleeps completed as invocations finished, after a
\* return as after an Exception.
C12_OneSleepBetween ==
    /\ spc = "task" => sleeps = taskCalls - 1
    /\ spc = "loop" => sleeps = taskCalls
    /\ spc \in {"sleep", "retry_sleep"} => sleeps = taskCalls - 1
    /\ taskCalls = iteration
    /\ (spc = "task" /\ taskCalls > 1) => outcome \in {"ok", "exc"}
    /\ spc = "sleep" => outcome = "ok"
    /\ spc = "retry_sleep" => outcome = "exc"

\* the third invocation is running, after two sleeps, the second invocation
\* having raised
C12_Witness ==
    /\ spc = "task"
    /\ taskCalls = 3
    /\ sleeps = 2
    /\ outcome = "exc"

(***************************************************************************)
(* Properties of the process.                                              *)
(***************************************************************************)
\* the configuration that main requires is present
RequiredConfigPresent == NEWSAPI_KEY # <<>> /\ KINESIS_STREAM_NAME # <<>>

\* the stream reports a status that the health check accepts
StreamHealthy == stream_status \in {"ACTIVE", "UPDATING"}

C14_ExitsOnlyOnPrecondition ==
    (mpc = "exited" /\ fatal # "KeyboardInterrupt") =>
        \/ ~RequiredConfigPresent
        \/ ~StreamHealthy
        \/ LOG_LEVEL \notin LoggingLevels

\* C15: an interrupt received once the scheduler has started (inside a
\* cycle, during the interval sleep or during the sleep that follows a
\* failed cycle) ends run_periodic, no further cycle is started, and the
\* process ends with exit code 0.
C15_InterruptExitsZero ==
    /\ [](interrupted =>
            /\ spc \in {"returned", "propagated"}
            /\ mpc \in {"run_periodic", "exited"}
            /\ mpc = "exited" => exit_code = <<0>>)
    /\ [][interrupted => (taskCalls' = taskCalls /\ cpc' \in {cpc, "interrupted"})]_vars
    /\ [][(interrupted /\ mpc = "run_periodic") => mpc' = "exited"]_vars

\* the interrupt arrived during the sleep that follows a failed cycle, left
\* run_periodic as an exception, and main has exited with status 0
C15_Witness ==
    /\ interrupted
    /\ outcome = "exc"
    /\ spc = "propagated"
    /\ mpc = "exited"
    /\ exit_code = <<0>>

(***************************************************************************)
(* Properties of the fields of a canonical record.                         *)
(***************************************************************************)
\* the value C16 gives to author and source_name for the raw value v
DefaultedText(v) ==
    IF v = Missing \/ Falsy(v) \/ clean_text(v) = <<>> THEN Unknown
    ELSE clean_text(v)

\* the raw source name of a record: absent when the record has no source
RawSourceName(article) ==
    IF article.source = "missing" THEN Missing ELSE article.source_name

\* C16: in every canonical record author and source_name are never empty:
\* each is "Unknown" when the raw value is absent, null, empty or empty
\* after cleaning, and the cleaned raw value otherwise.
C16_NeverEmpty ==
    \A i \in DOMAIN results :
        results[i].kind = "ok" =>
            /\ results[i].rec.author # <<>>
            /\ results[i].rec.source_name # <<>>
            /\ results[i].rec.author = DefaultedText(raw_articles[i].author)
            /\ results[i].rec.source_name =
                   DefaultedText(RawSourceName(raw_articles[i]))

\* the body C17 gives to a raw record
BodyOf(article) ==
    LET c == article.content
        d == article.description
    IN  IF c # Missing /\ c # NoneStr /\ c # <<>> /\ c # Removed
          THEN clean_text(c)
          ELSE IF d = Missing \/ d = NoneStr THEN <<>> ELSE clean_text(d)

\* C17: the body of a canonical record is the cleaned content when the
\* content is present, non-empty and not "[Removed]", otherwise the cleaned
\* description, and the empty string when the description is absent or
\* null too; it is never null.
C17_Body ==
    \A i \in DOMAIN results :
        results[i].kind = "ok" =>
            /\ results[i].rec.content = BodyOf(raw_articles[i])
            /\ results[i].rec.content # NoneStr
            /\ results[i].rec.content # Missing

\* content "[Removed]" with description "Fallback text": the body is
\* "Fallback text"
C17_Witness ==
    /\ ppc = "done"
    /\ raw_articles[1].content = Removed
    /\ raw_articles[1].description = FallbackText
    /\ Len(processed) = 1
    /\ processed[1].content = FallbackText

\* a text is clean: no whitespace at either end, none but the space, and no
\* two spaces in a row
IsClean(y) ==
    /\ y # NoneStr /\ y # Missing
    /\ \A k \in DOMAIN y : y[k] \in Whitespace => y[k] = " "
    /\ y # <<>> => (y[1] # " " /\ y[Len(y)] # " ")
    /\ \A k \in 1..(Len(y) - 1) : ~(y[k] = " " /\ y[k + 1] = " ")

\* C18: clean_text is idempotent and its result is clean: the source name
\* of a canonical record, which is clean_text of the raw source name (a
\* text or null), and its title and body, are left unchanged by a second
\* clean_text, have no whitespace at their ends, no two adjacent whitespace
\* characters and no whitespace character other than the space.
C18_CleanIdempotent ==
    \A i \in DOMAIN results :
        results[i].kind = "ok" =>
            /\ raw_articles[i].source = "dict" /\ raw_articles[i].source_name # Missing =>
                 results[i].rec.source_name = clean_text(raw_articles[i].source_name)
            /\ \A y \in {results[i].rec.source_name, results[i].rec.title,
                         results[i].rec.content} :
                 /\ clean_text(y) = y
                 /\ IsClean(y)

\* the source name "a", space, tab, "a" was cleaned to "a a"
C18_Witness ==
    /\ ppc = "done"
    /\ raw_articles[1].source_name = <<"a", " ", "\t", "a">>
    /\ Len(processed) = 1
    /\ processed[1].source_name = <<"a", " ", "a">>

(***************************************************************************)
(* Properties of the requests of the writer.                               *)
(***************************************************************************)
\* the number of write requests C19 expects for N records in chunks of B
ExpectedRequests(N, B) == IF N > 1 THEN CeilDiv(N, B) ELSE N

C20_AllRecordsFetched ==
    (fpc = "done" /\ max_pages = None /\ pageLog # <<>>) =>
        Len(all_articles) = pageLog[1].totalResults

(***************************************************************************)
(* Properties of the page limit.                                           *)
(***************************************************************************)

\* C21: whenever a max_pages value is given to fetch_all_articles (any
\* integer >= 0), the number of page requests issued in the call never
\* exceeds max_pages, whatever the API responds.
C21_MaxPagesBound ==
    max_pages # None => Len(pageLog) <= max_pages[1]

(***************************************************************************)
(* Properties of the id and of the delivered fields.                       *)
(***************************************************************************)

\* C22: any two canonical records produced by process_article that have the
\* same url field and the same title field have the same id.
C22_IdOfDeliveredFields ==
    \A i, j \in DOMAIN results :
        (/\ results[i].kind = "ok"
         /\ results[j].kind = "ok"
         /\ results[i].rec.url = results[j].rec.url
         /\ results[i].rec.title = results[j].rec.title)
        => results[i].rec.article_id = results[j].rec.article_id

\* C23: process_article rejects a raw record only for a missing or empty
\* url or title: every raw record whose url is non-empty and whose title is
\* non-empty after cleaning yields a canonical record, whatever its source,
\* author, content, description and publishedAt are.
C23_RejectsOnlyUrlTitle ==
    \A i \in DOMAIN results :
        ~MustReject(raw_articles[i]) => results[i].kind = "ok"

(***************************************************************************)
(* Properties of Scheduler.stop().                                         *)
(***************************************************************************)

\* C24: once stop() has been called during a run (from inside the task,
\* whether the task then returns or raises), run_periodic starts no further
\* task invocation, and it returns after at most the completion of the
\* current cycle and one interval sleep: the flag stays cleared, the count
\* of task calls no longer changes, the cycle in progress ends in a return
\* or in one sleep, the loop test that follows a sleep leaves the loop, no
\* more sleeps than cycles have been taken, and the run ends (by returning,
\* unless an interrupt ends it first).
C24_StopEndsRun ==
    /\ [](stopCalled => ~running)
    /\ [][stopCalled => taskCalls' = taskCalls]_vars
    /\ [][(stopCalled /\ spc = "task") =>
            spc' \in {"task", "sleep", "retry_sleep", "returned"}]_vars
    /\ [][(stopCalled /\ spc \in {"sleep", "retry_sleep"}) =>
            spc' \in {"loop", "returned", "propagated"}]_vars
    /\ [][(stopCalled /\ spc = "loop") => spc' = "returned"]_vars
    /\ [](stopCalled => sleeps <= taskCalls)
    /\ [](spc = "propagated" => interrupted)
    /\ stopCalled ~> (spc = "returned" \/ interrupted)

\* stop() was called inside the second cycle, whose task then raised: the
\* handler slept once and run_periodic returned, with no third call
C24_Witness ==
    /\ stopCalled
    /\ spc = "returned"
    /\ outcome = "exc"
    /\ ~interrupted
    /\ taskCalls = 2
    /\ sleeps = 2

====
